---- MODULE Spec2Model ----
(***************************************************************************)
(* A model of the reporting bot: the login manager (TDLibManager), the     *)
(* report worker (ReportWorker) and the dialogue handlers of bot.py.       *)
(* Handlers run one at a time (Application is built without concurrent     *)
(* updates), so a handler is one action; the reporting loop is stepped at  *)
(* its awaits.  What the Telegram servers answer is the environment's      *)
(* choice.                                                                 *)
(***************************************************************************)
EXTENDS Integers, Sequences, FiniteSets, TLC

VARIABLES
    auth_state,     \* TDLibManager.auth_state: phone -> pending login
    user_clients,   \* TDLibManager.user_clients: user_id -> (phone -> client)
    clients,        \* the TelegramClient objects created so far, by identity
    obs,            \* the last call that is observed: its arguments, what it did, its result
    active_jobs,    \* ReportWorker.active_jobs: report_id -> counters of a running job
    job,            \* the running start_reporting call: its locals and its place
    inflight,       \* the loop iterations whose report request has not yet returned
    user_data,      \* context.user_data of each user: a dict
    member,         \* the users that are members of the required channel
    db_sudos,       \* db.sudos: the user ids in the sudo collection
    db_accounts,    \* db.accounts: the account records, in the order of insertion
    db_users,       \* db.users: the user records, in the order of insertion
    db_reports,     \* db.reports: the report records, in the order inserted
    rtype_shown,    \* the users that were sent the report-type keyboard
    prompt          \* what the last handler answered

tmvars == <<auth_state, user_clients, clients>>
wvars == <<active_jobs, job, inflight>>
botvars == <<user_data, member, db_sudos, db_accounts, db_users, db_reports,
             rtype_shown, prompt>>
vars == <<auth_state, user_clients, clients, obs, active_jobs, job, inflight,
          user_data, member, db_sudos, db_accounts, db_users, db_reports,
          rtype_shown, prompt>>

(* ------------------------------ bounds -------------------------------- *)

MaxClients == 3     \* TelegramClient objects created in one run
MaxReports == 3     \* the largest report_count a job is started with directly
MaxJobs == 1        \* reports started through the bot in one run
MaxLogins == 1      \* logins started through the bot in one run

(* ------------------------- program constants -------------------------- *)

OWNER_ID == 1
REQUIRED_IDS_COUNT == 3
MAX_REPORTS_PER_BATCH == 5000

\* The owner and one other user.
Users == {OWNER_ID, OWNER_ID + 1}

Digit(n) == <<"0", "1", "2", "3", "4", "5", "6", "7", "8", "9">>[n + 1]

\* Texts are sequences of characters; a phone number is "+" and digits.
PhoneText(n) == <<"+", Digit(n)>>
\* The phone numbers the manager and the worker are called with, and the ones
\* the bot's users type: as many as a user has to link.
Phones == {PhoneText(1), PhoneText(2)}
BotPhones == {PhoneText(n) : n \in 1..REQUIRED_IDS_COUNT}

(* ------------------------------ dicts --------------------------------- *)

Put(d, k, v) == [x \in (DOMAIN d) \cup {k} |-> IF x = k THEN v ELSE d[x]]
Del(d, k) == [x \in (DOMAIN d) \ {k} |-> d[x]]
EmptyDict == <<>>

(* --------------------------- TDLibManager ----------------------------- *)

\* The manager's fields as one value, for the operators below.
TM == [auth_state |-> auth_state, user_clients |-> user_clients, clients |-> clients]

TMInit == [auth_state |-> EmptyDict, user_clients |-> EmptyDict, clients |-> <<>>]

\* TelegramClient(session_path, api_id, api_hash): a new object, not connected.
NewClient(m) ==
    [m EXCEPT !.clients = Append(@, [connected |-> FALSE, authorized |-> FALSE])]

SetConnected(m, c, b) == [m EXCEPT !.clients[c].connected = b]
SetAuthorized(m, c, b) == [m EXCEPT !.clients[c].authorized = b]

\* _store_client
_store_client(m, user_id, phone, client) ==
    LET phones == IF user_id \in DOMAIN m.user_clients
                  THEN m.user_clients[user_id] ELSE EmptyDict
    IN [m EXCEPT !.user_clients = Put(@, user_id, Put(phones, phone, client))]

\* The users that hold a stored client for the phone.
HoldersOf(m, phone) ==
    {u \in DOMAIN m.user_clients : phone \in DOMAIN m.user_clients[u]}

\* The clients _cleanup_phone finds for the phone.
ClientsFor(m, phone) ==
    (IF phone \in DOMAIN m.auth_state THEN {m.auth_state[phone].client} ELSE {})
    \cup {m.user_clients[u][phone] : u \in HoldersOf(m, phone)}

\* _cleanup_phone, first half: the pending login of the phone
CleanupAuth(m, phone) ==
    IF phone \in DOMAIN m.auth_state
    THEN LET old_client == m.auth_state[phone].client
         IN [SetConnected(m, old_client, FALSE) EXCEPT !.auth_state = Del(@, phone)]
    ELSE m

\* _cleanup_phone, second half: the stored clients of the phone, under any user
CleanupStoredMutant(m, phone) == m
CleanupStored(m, phone) ==
    LET holders == HoldersOf(m, phone)
        olds == {m.user_clients[u][phone] : u \in holders}
        kept == {u \in DOMAIN m.user_clients :
                    (DOMAIN m.user_clients[u]) \ {phone} # {}}
    IN [m EXCEPT
          !.clients = [c \in DOMAIN @ |->
                         IF c \in olds THEN [@[c] EXCEPT !.connected = FALSE] ELSE @[c]],
          !.user_clients = [u \in kept |-> Del(m.user_clients[u], phone)]]

_cleanup_phone(m, phone) == CleanupStored(CleanupAuth(m, phone), phone)

\* What the servers answer to connect, is_user_authorized and send_code_request;
\* "failed" is any of the exceptions send_code catches, which differ in the
\* message returned only.
SendOutcomes == {"code_sent", "already_authorized", "failed"}

\* send_code: [m, ret, client]; of the pending login it stores, the model keeps
\* the fields that are read again: the client and the step.
send_code(m, user_id, phone, out) ==
    LET m1 == _cleanup_phone(m, phone)
        m2 == NewClient(m1)
        client == Len(m2.clients)
        m3 == SetConnected(m2, client, TRUE)
    IN  IF out = "already_authorized"
        THEN [m |-> _store_client(SetAuthorized(m3, client, TRUE), user_id, phone, client),
              ret |-> <<TRUE, "already_authorized">>,
              client |-> client]
        ELSE IF out = "code_sent"
        THEN [m |-> [m3 EXCEPT !.auth_state =
                        Put(@, phone, [client |-> client, step |-> "code_sent"])],
              ret |-> <<TRUE, "hash">>,
              client |-> client]
        ELSE [m |-> m1,        \* the new client is disconnected and dropped
              ret |-> <<FALSE, "error">>,
              client |-> 0]

\* What the servers answer to a sign-in and to the checks after it; "failed" is
\* any of the exceptions verify_code catches or a failed is_user_authorized, which
\* differ in the message returned only; "no_me" is get_me returning nothing.
CodeOutcomes == {"ok", "password_needed", "failed", "no_me"}
PasswordOutcomes == {"ok", "failed", "no_me"}

\* verify_code chooses the sign-in: with the password only in step 2fa_needed
SignInKindMutant(password, step) == IF password # <<>> THEN "password" ELSE "code"
SignInKind(password, step) ==
    IF password # <<>> /\ step = "2fa_needed" THEN "password" ELSE "code"

SignInOutcomes(kind) == IF kind = "password" THEN PasswordOutcomes ELSE CodeOutcomes

\* The answers verify_code can get: none when it never reaches the servers.
VerifyOutcomes(m, phone, password) ==
    IF phone \in DOMAIN m.auth_state
    THEN SignInOutcomes(SignInKind(password, m.auth_state[phone].step))
    ELSE {"none"}

\* verify_code on a phone without a pending login
NoStateMutant(m, user_id, phone) ==
    LET m1 == NewClient(m)
        client == Len(m1.clients)
        m2 == SetAuthorized(SetConnected(m1, client, TRUE), client, TRUE)
    IN [m |-> _store_client(m2, user_id, phone, client),
        ret |-> <<TRUE, "success">>, client |-> client, kind |-> "code"]
NoState(m, user_id, phone) ==
    [m |-> m, ret |-> <<FALSE, "Session expired">>, client |-> 0, kind |-> "none"]

\* the client verify_code signs in on
SignInClientMutant(m, phone) == Len(m.clients)
SignInClient(m, phone) == m.auth_state[phone].client

\* verify_code after its sign-in: [m, ret, client, kind]
AfterSignIn(m, user_id, phone, client, kind, out) ==
    LET state == m.auth_state[phone]
        base == [m |-> m, ret |-> <<FALSE, "error">>, client |-> client,
                 kind |-> kind]
    IN  CASE out = "password_needed" ->
               [base EXCEPT !.m = [m EXCEPT !.auth_state[phone].step = "2fa_needed"],
                            !.ret = <<FALSE, "2fa_required">>]
          [] out = "failed" -> [base EXCEPT !.ret = <<FALSE, "error">>]
          [] out = "no_me" ->
               [base EXCEPT !.m = SetAuthorized(m, client, TRUE),
                            !.ret = <<FALSE, "Could not verify login">>]
          [] OTHER ->
               LET m1 == _store_client(SetAuthorized(m, client, TRUE),
                                       user_id, phone, client)
               IN [base EXCEPT !.m = [m1 EXCEPT !.auth_state = Del(@, phone)],
                               !.ret = <<TRUE, "success">>]

\* verify_code: [m, ret, client, kind]
verify_code(m, user_id, phone, password, out) ==
    IF phone \notin DOMAIN m.auth_state
    THEN NoState(m, user_id, phone)
    ELSE LET state == m.auth_state[phone]
         IN IF state.step \notin {"code_sent", "2fa_needed"}
            THEN [m |-> m, ret |-> <<FALSE, "Invalid state">>, client |-> 0,
                  kind |-> "none"]
            ELSE LET client == SignInClient(m, phone)
                     kind == SignInKind(password, state.step)
                 IN AfterSignIn(SetConnected(m, client, TRUE), user_id, phone,
                                client, kind, out)

(* ---------------------------- ReportWorker ---------------------------- *)

\* get_or_create_client has a client stored for the user and the phone
Stored(m, user_id, phone) ==
    /\ user_id \in DOMAIN m.user_clients
    /\ phone \in DOMAIN m.user_clients[user_id]

\* What the stored client, the session file and the servers answer: the stored
\* client is connected and authorized ("stored_ok"), or a client is loaded from
\* the session file.
LoadOutcomes == {"no_file", "loaded", "load_failed"}
ClientOutcomes == {"stored_ok"} \cup LoadOutcomes

\* get_or_create_client: [m, client, ok]
get_or_create_client(m, user_id, phone, out) ==
    IF Stored(m, user_id, phone) /\ out = "stored_ok"
    THEN [m |-> m, client |-> m.user_clients[user_id][phone], ok |-> TRUE]
    ELSE IF out = "no_file"
    THEN [m |-> m, client |-> 0, ok |-> FALSE]
    ELSE LET m1 == NewClient(m)
             client == Len(m1.clients)
         IN IF out = "loaded"
            THEN [m |-> _store_client(
                          SetAuthorized(SetConnected(m1, client, TRUE), client, TRUE),
                          user_id, phone, client),
                  client |-> client, ok |-> TRUE]
            ELSE [m |-> m, client |-> 0, ok |-> FALSE]   \* the new client is dropped

\* An account record as start_reporting reads it: the phone, and whether api_id
\* and api_hash are both set.
Account(phone, has_api) == [phone |-> phone, has_api |-> has_api]

\* start_reporting's loop over the accounts: [m, connected_clients, valid], where
\* valid says that outs[k] is "no_file" wherever no file is looked for.
RECURSIVE ConnectAll(_, _, _, _, _, _)
ConnectAll(m, user_id, accounts, outs, k, connected_clients) ==
    IF k > Len(accounts)
    THEN [m |-> m, connected_clients |-> connected_clients, valid |-> TRUE]
    ELSE LET acc == accounts[k]
         IN IF ~acc.has_api
            THEN LET rest == ConnectAll(m, user_id, accounts, outs, k + 1,
                                        connected_clients)
                 IN [rest EXCEPT !.valid = @ /\ outs[k] = "no_file"]
            ELSE LET r == get_or_create_client(m, user_id, acc.phone, outs[k])
                     rest == ConnectAll(r.m, user_id, accounts, outs, k + 1,
                                 IF r.ok /\ r.client # 0
                                 THEN Append(connected_clients,
                                             [client |-> r.client, phone |-> acc.phone])
                                 ELSE connected_clients)
                 IN [rest EXCEPT !.valid =
                        @ /\ (outs[k] = "stored_ok" => Stored(m, user_id, acc.phone))]

Idle == [pc |-> "idle", report_id |-> "", connected_clients |-> <<>>, idx |-> 0,
         i |-> 0, report_count |-> 0, ret |-> <<FALSE, "">>, result |-> [success |-> 0, failed |-> 0],
         attempts |-> <<>>, pos |-> 0, stopped |-> FALSE, last_out |-> ""]

NewJob(report_count) == [running |-> TRUE, success |-> 0, failed |-> 0, total |-> report_count]

\* start_reporting from the check of accounts up to its loop, jobs1 being
\* active_jobs with the job in it: [m, active_jobs, job]
connect_and_find(m, jobs1, report_id, user_id, accounts, report_count, outs, target_found) ==
    LET called == [Idle EXCEPT !.report_id = report_id, !.report_count = report_count]
        c == ConnectAll(m, user_id, accounts, outs, 1, <<>>)
    IN  IF accounts = <<>>
        THEN [m |-> m, active_jobs |-> Del(jobs1, report_id),
              job |-> [called EXCEPT !.pc = "returned", !.ret = <<FALSE, "No accounts provided">>]]
        ELSE IF c.connected_clients = <<>>
        THEN [m |-> c.m, active_jobs |-> Del(jobs1, report_id),
              job |-> [called EXCEPT !.pc = "returned", !.ret = <<FALSE, "No valid sessions found">>]]
        ELSE IF ~target_found
        THEN [m |-> c.m, active_jobs |-> Del(jobs1, report_id),
              job |-> [called EXCEPT !.pc = "returned", !.ret = <<FALSE, "Could not find target">>]]
        ELSE [m |-> c.m, active_jobs |-> jobs1,
              job |-> [called EXCEPT !.pc = "loop",
                         !.connected_clients = c.connected_clients,
                         !.attempts = [k \in 1..Len(c.connected_clients) |-> 0]]]

\* start_reporting up to its loop: [m, active_jobs, job]
start_reporting(m, jobs, report_id, user_id, accounts, report_count, outs, target_found) ==
    connect_and_find(m, Put(jobs, report_id, NewJob(report_count)), report_id, user_id,
                     accounts, report_count, outs, target_found)

\* stop_reporting: [active_jobs, ret]
stop_reporting(jobs, report_id) ==
    IF report_id \in DOMAIN jobs
    THEN [active_jobs |-> [jobs EXCEPT ![report_id].running = FALSE], ret |-> TRUE]
    ELSE [active_jobs |-> jobs, ret |-> FALSE]

\* self.active_jobs.get(report_id, {}).get("running")
RunningMutant(jobs, report_id) == report_id \in DOMAIN jobs
Running(jobs, report_id) == report_id \in DOMAIN jobs /\ jobs[report_id].running

\* the position in connected_clients the loop uses (from 1)
PickMutant(idx, n) == 1
Pick(idx, n) == (idx % n) + 1

\* where the loop goes after it sent a report request: it awaits the answer
AfterRequestMutant == "sleep"
AfterRequest == "await"

\* how an answer is counted; a raised exception is caught and counted as failed
CountMutant(j, out) ==
    CASE out = "success" -> [j EXCEPT !.success = @ + 1]
      [] out = "raise" -> j
      [] OTHER -> [j EXCEPT !.failed = @ + 1]
Count(j, out) ==
    IF out = "success" THEN [j EXCEPT !.success = @ + 1] ELSE [j EXCEPT !.failed = @ + 1]

\* idx after an iteration
NextIdx(idx, out) == idx + 1

\* A flood wait is counted as any other failure.
ReportOutcomes == {"success", "fail", "raise"}

SetTM(m) ==
    /\ auth_state' = m.auth_state
    /\ user_clients' = m.user_clients
    /\ clients' = m.clients

NoObs == [op |-> "none", phone |-> <<>>, ret |-> <<FALSE, "">>,
          client |-> 0, kind |-> "none"]

(* ---------------- the manager driven through its methods -------------- *)

Passwords == {<<>>, <<"p", "w">>}

SendCodeCall(user_id, phone, out) ==
    /\ Len(clients) < MaxClients      \* the bound on created clients
    /\ LET r == send_code(TM, user_id, phone, out)
       IN /\ SetTM(r.m)
          /\ obs' = [NoObs EXCEPT !.op = "send_code", !.phone = phone, !.ret = r.ret,
                       !.client = r.client]
    /\ UNCHANGED <<wvars, botvars>>

VerifyCodeCall(user_id, phone, password, out) ==
    /\ out \in VerifyOutcomes(TM, phone, password)
    /\ LET r == verify_code(TM, user_id, phone, password, out)
       IN /\ SetTM(r.m)
          /\ obs' = [NoObs EXCEPT !.op = "verify_code", !.phone = phone, !.ret = r.ret,
                       !.client = r.client, !.kind = r.kind]
    /\ UNCHANGED <<wvars, botvars>>

AuthInit ==
    /\ auth_state = TMInit.auth_state
    /\ user_clients = TMInit.user_clients
    /\ clients = TMInit.clients
    /\ obs = NoObs
    /\ active_jobs = EmptyDict
    /\ job = Idle
    /\ inflight = {}
    /\ user_data = [u \in Users |-> EmptyDict]
    /\ member = {}
    /\ db_sudos = {}
    /\ db_accounts = <<>>
    /\ db_users = <<>>
    /\ db_reports = <<>>
    /\ rtype_shown = {}
    /\ prompt = "other"

\* get_or_create_client called for one account
GetOrCreateClientCall(user_id, phone, out) ==
    /\ out = "stored_ok" => Stored(TM, user_id, phone)
    /\ LET r == get_or_create_client(TM, user_id, phone, out)
       IN /\ Len(r.m.clients) <= MaxClients      \* the bound on created clients
          /\ SetTM(r.m)
          /\ obs' = [NoObs EXCEPT !.op = "get_or_create_client", !.phone = phone,
                       !.ret = <<r.ok, "">>, !.client = r.client]
    /\ UNCHANGED <<wvars, botvars>>

AuthNext ==
    \/ \E u \in Users, p \in Phones, out \in SendOutcomes : SendCodeCall(u, p, out)
    \/ \E u \in Users, p \in Phones, pw \in Passwords, out \in CodeOutcomes \cup PasswordOutcomes \cup {"none"} :
          VerifyCodeCall(u, p, pw, out)
    \/ \E u \in Users, p \in Phones, out \in ClientOutcomes : GetOrCreateClientCall(u, p, out)

SpecAuth == AuthInit /\ [][AuthNext]_vars

(* ----------------------- claims about the login ----------------------- *)

\* The clients the manager still refers to.
Referenced ==
    {auth_state[p].client : p \in DOMAIN auth_state}
    \cup UNION {{user_clients[u][p] : p \in DOMAIN user_clients[u]} : u \in DOMAIN user_clients}

\* C1: verify_code returns success only for a phone that has a pending login, and
\* a pending login comes into being only by a successful send_code for the phone;
\* without a pending login verify_code returns (False, "Session expired") and
\* leaves auth_state and user_clients as they were.
C1_LoginOrdering ==
    [][/\ \A p \in Phones :
            (p \notin DOMAIN auth_state /\ p \in DOMAIN auth_state')
               => (obs'.op = "send_code" /\ obs'.phone = p /\ obs'.ret[1])
       /\ (obs'.op = "verify_code" /\ obs'.ret[1])
               => obs'.phone \in DOMAIN auth_state
       /\ (obs'.op = "verify_code" /\ obs'.phone \notin DOMAIN auth_state)
               => /\ obs'.ret = <<FALSE, "Session expired">>
                  /\ auth_state' = auth_state
                  /\ user_clients' = user_clients]_vars

\* a verify_code that succeeded
C1_Witness == obs.op = "verify_code" /\ obs.ret = <<TRUE, "success">>

\* C2: a pending login goes from code_sent to 2fa_needed only by a code sign-in
\* that was answered "password needed"; verify_code then returns
\* (False, "2fa_required") and keeps the pending login; a password sign-in is
\* attempted only in step 2fa_needed; a code sign-in that succeeds in step
\* code_sent completes the login.
C2_OptionalTwoFactor ==
    [][LET p == obs'.phone
       IN obs'.op = "verify_code" =>
           /\ \A q \in Phones :
                 (/\ q \in DOMAIN auth_state' /\ auth_state'[q].step = "2fa_needed"
                  /\ ~(q \in DOMAIN auth_state /\ auth_state[q].step = "2fa_needed"))
                 => /\ q = p /\ obs'.kind = "code" /\ obs'.ret = <<FALSE, "2fa_required">>
                    /\ q \in DOMAIN auth_state /\ auth_state[q].step = "code_sent"
           /\ obs'.ret = <<FALSE, "2fa_required">>
                 => /\ p \in DOMAIN auth_state /\ p \in DOMAIN auth_state'
                    /\ auth_state'[p] = [auth_state[p] EXCEPT !.step = "2fa_needed"]
           /\ obs'.kind = "password"
                 => p \in DOMAIN auth_state /\ auth_state[p].step = "2fa_needed"
           /\ (obs'.ret[1] /\ obs'.kind = "code")
                 => p \notin DOMAIN auth_state' /\ obs'.client \in Referenced']_vars

\* a login that needed the password and completed with it
C2_Witness == obs.op = "verify_code" /\ obs.kind = "password" /\ obs.ret[1]

\* C3: send_code stores the client it created; the stored client of a pending
\* login changes only by another send_code for the phone; verify_code signs in on
\* the stored client and creates no client.
C3_SessionReuse ==
    [][/\ (obs'.op = "send_code" /\ obs'.phone \in DOMAIN auth_state' /\ obs'.ret[1]
           /\ obs'.ret[2] # "already_authorized")
             => /\ auth_state'[obs'.phone].client = obs'.client
                /\ obs'.client = Len(clients) + 1
                /\ Len(clients') = Len(clients) + 1
       /\ \A p \in Phones :
             (p \in DOMAIN auth_state /\ p \in DOMAIN auth_state'
              /\ auth_state'[p].client # auth_state[p].client)
             => (obs'.op = "send_code" /\ obs'.phone = p)
       /\ (obs'.op = "verify_code")
             => /\ Len(clients') = Len(clients)
                /\ obs'.kind # "none" => obs'.client = auth_state[obs'.phone].client]_vars

\* a sign-in on a client that is not the newest one
C3_Witness ==
    /\ obs.op = "verify_code" /\ obs.kind = "code" /\ obs.ret[1]
    /\ obs.client < Len(clients)

\* C4: send_code leaves every client that was pending or stored for the phone,
\* under any user, disconnected and no longer referred to, and none of them is
\* the new client; no two phones share a pending client, and a connected client
\* that is not yet authorized is some phone's pending client.
C4_StaleCleanup ==
    [][/\ obs'.op = "send_code" =>
            \A c \in ClientsFor(TM, obs'.phone) :
               ~clients'[c].connected /\ c \notin Referenced' /\ c # obs'.client
       /\ \A p \in DOMAIN auth_state', q \in DOMAIN auth_state' :
            auth_state'[p].client = auth_state'[q].client => p = q
       /\ \A c \in DOMAIN clients' :
            (clients'[c].connected /\ ~clients'[c].authorized)
               => \E p \in DOMAIN auth_state' : auth_state'[p].client = c]_vars

\* a send_code has succeeded after send_code calls have cleaned a client whose
\* login was pending and a client that had signed in
C4_Witness ==
    /\ obs.op = "send_code" /\ obs.ret[1]
    /\ obs.client = Len(clients)
    /\ \E c1 \in 1..(Len(clients) - 1), c2 \in 1..(Len(clients) - 1) :
          /\ ~clients[c1].connected /\ c1 \notin Referenced /\ ~clients[c1].authorized
          /\ ~clients[c2].connected /\ c2 \notin Referenced /\ clients[c2].authorized

(* ------------------ the worker driven through its methods ------------- *)

ReportIds == {"R1", "R2"}

\* The account lists a job is started with: distinct phones, with or without
\* API credentials.
AccountLists ==
    {<<>>}
    \cup {<<Account(p, b)>> : p \in Phones, b \in BOOLEAN}
    \cup {l \in {<<Account(p, TRUE), Account(q, b)>> :
                    p \in Phones, q \in Phones, b \in BOOLEAN} :
             l[1].phone # l[2].phone}

StartReportingCall(report_id, user_id, accounts, report_count, outs, target_found) ==
    /\ job.pc = "idle"
    /\ ConnectAll(TM, user_id, accounts, outs, 1, <<>>).valid
    /\ LET r == start_reporting(TM, active_jobs, report_id, user_id, accounts,
                               report_count, outs, target_found)
       IN /\ Len(r.m.clients) <= MaxClients      \* the bound on created clients
          /\ (r.job.pc = "returned" /\ r.job.ret[2] # "Could not find target") => target_found
          /\ SetTM(r.m)
          /\ active_jobs' = r.active_jobs
          /\ job' = r.job
    /\ UNCHANGED <<obs, inflight, botvars>>

\* The head of one loop iteration: the for statement, the running check, the
\* choice of the client and the report request.
LoopCheck ==
    /\ job.pc = "loop"
    /\ IF job.i >= job.report_count \/ ~Running(active_jobs, job.report_id)
       THEN job' = [job EXCEPT !.pc = "finish"] /\ UNCHANGED inflight
       ELSE LET pos == Pick(job.idx, Len(job.connected_clients))
            IN /\ job' = [job EXCEPT !.pc = AfterRequest, !.attempts[pos] = @ + 1,
                                     !.pos = pos]
               /\ inflight' = inflight \cup {job.i}
    /\ UNCHANGED <<tmvars, obs, active_jobs, botvars>>

\* The answer to a report request arrives (or the attempt raised) and is counted.
ReportDone(i, out) ==
    /\ i \in inflight
    /\ inflight' = inflight \ {i}
    /\ IF job.report_id \in DOMAIN active_jobs
       THEN active_jobs' = [active_jobs EXCEPT ![job.report_id] = Count(@, out)]
       ELSE UNCHANGED active_jobs
    /\ job' = [job EXCEPT !.pc = IF @ = "await" THEN "sleep" ELSE @, !.last_out = out]
    /\ UNCHANGED <<tmvars, obs, botvars>>

\* idx += 1 and the sleep between two reports
Sleep ==
    /\ job.pc = "sleep"
    /\ job' = [job EXCEPT !.pc = "loop", !.idx = NextIdx(@, job.last_out), !.i = @ + 1]
    /\ UNCHANGED <<tmvars, obs, active_jobs, inflight, botvars>>

\* After the loop: the result, and the job is removed.
Finish ==
    /\ job.pc = "finish"
    /\ job' = [job EXCEPT !.pc = "returned", !.ret = <<TRUE, "result">>,
                  !.result = [success |-> active_jobs[job.report_id].success,
                              failed |-> active_jobs[job.report_id].failed]]
    /\ active_jobs' = Del(active_jobs, job.report_id)
    /\ UNCHANGED <<tmvars, obs, inflight, botvars>>

\* The caller has taken what start_reporting returned.
Returned ==
    /\ job.pc = "returned"
    /\ job' = Idle
    /\ UNCHANGED <<tmvars, obs, active_jobs, inflight, botvars>>

\* stop_reporting
StopReporting(report_id) ==
    /\ LET r == stop_reporting(active_jobs, report_id)
       IN /\ active_jobs' = r.active_jobs
          /\ job' = [job EXCEPT !.stopped = @ \/ r.ret]
    /\ UNCHANGED <<tmvars, obs, inflight, botvars>>

WorkerNext ==
    \/ \E report_id \in {"R1"}, user_id \in Users, accounts \in AccountLists,
          report_count \in 0..MaxReports, target_found \in BOOLEAN :
          \E outs \in [1..Len(accounts) -> ClientOutcomes] :
             StartReportingCall(report_id, user_id, accounts, report_count, outs,
                                target_found)
    \/ LoopCheck
    \/ \E i \in 0..MaxReports, out \in ReportOutcomes : ReportDone(i, out)
    \/ Sleep
    \/ Finish
    \/ Returned
    \/ \E report_id \in ReportIds : StopReporting(report_id)

SpecWorker == AuthInit /\ [][WorkerNext]_vars

(* ------------------- claims about the reporting loop ------------------ *)

\* The outcomes the running job has counted so far.
Counted ==
    IF job.report_id \in DOMAIN active_jobs
    THEN active_jobs[job.report_id].success + active_jobs[job.report_id].failed
    ELSE job.result.success + job.result.failed

\* The iterations that have sent their request.
Issued == IF job.pc \in {"await", "sleep"} THEN job.i + 1 ELSE job.i

C6_CatchAndCount ==
    [][/\ (job.pc = "await" /\ job'.pc # "await") =>
            /\ job'.pc = "sleep"
            /\ LET a == active_jobs[job.report_id]
                   b == active_jobs'[job.report_id]
               IN \/ b.success = a.success + 1 /\ b.failed = a.failed
                  \/ b.failed = a.failed + 1 /\ b.success = a.success
       /\ (job'.pc = "returned" /\ job'.ret[1] /\ ~job'.stopped) =>
            job'.result.success + job'.result.failed = job'.report_count]_vars

\* a job that ran to its end although its last attempt raised
C6_Witness ==
    /\ job.pc = "returned" /\ job.ret[1] /\ ~job.stopped
    /\ job.last_out = "raise" /\ job.report_count >= 2
    /\ job.result.success >= 1 /\ job.result.failed >= 1

\* C7: at most one report request of the job is in flight, it is the request of
\* the current iteration, and the outcomes of all earlier iterations have been
\* counted when it is sent.
C7_Sequential ==
    /\ Cardinality(inflight) <= 1
    /\ inflight # {} => /\ inflight = {job.i}
                        /\ job.pc = "await"
                        /\ Counted = job.i

\* the third request is in flight
C7_Witness == inflight = {2} /\ job.pc = "await"

(* ------------------------------ texts --------------------------------- *)

Digits == {"0", "1", "2", "3", "4", "5", "6", "7", "8", "9"}
DigitValue(ch) == CHOOSE n \in 0..9 : Digit(n) = ch

\* str.lower, on the letters the model's texts use
LowerChar(ch) ==
    CASE ch = "S" -> "s" [] ch = "K" -> "k" [] ch = "I" -> "i" [] ch = "P" -> "p"
      [] OTHER -> ch
Lower(text) == [i \in 1..Len(text) |-> LowerChar(text[i])]

\* str.isdigit
IsDigits(text) == Len(text) > 0 /\ \A i \in 1..Len(text) : text[i] \in Digits

RECURSIVE DigitsValue(_)
DigitsValue(text) ==
    IF text = <<>> THEN 0
    ELSE 10 * DigitsValue(SubSeq(text, 1, Len(text) - 1)) + DigitValue(text[Len(text)])

\* int(text): [ok, value]; a sign may come first; ok is FALSE for a ValueError
ParseInt(text) ==
    LET signed == Len(text) > 0 /\ text[1] \in {"+", "-"}
        body == IF signed THEN Tail(text) ELSE text
    IN IF IsDigits(body)
       THEN [ok |-> TRUE,
             value |-> IF signed /\ text[1] = "-" THEN 0 - DigitsValue(body)
                       ELSE DigitsValue(body)]
       ELSE [ok |-> FALSE, value |-> 0]

\* handle_phone_input's check of a phone number
IsPhone(text) == Len(text) > 0 /\ text[1] = "+" /\ IsDigits(Tail(text))

T_skip == <<"S", "k", "i", "p">>
T_word == <<"x">>

\* The texts a user sends, by what the dialogue waits for: where a handler does
\* not look into the text, one text stands for all.  Phone numbers are entered
\* in order, linked being the number of accounts the user has linked: the next
\* number, or the first one again.
TextsFor(waiting_for, linked) ==
    CASE waiting_for = "phone" ->
           {PhoneText(1), PhoneText(IF linked < REQUIRED_IDS_COUNT THEN linked + 1
                                    ELSE REQUIRED_IDS_COUNT), T_word}
      [] waiting_for \in {"sudo_id_add", "sudo_id_remove"} ->
           {<<Digit(u)>> : u \in Users \ {OWNER_ID}} \cup {T_word}
      [] waiting_for = "group_link" -> {T_skip}
      [] waiting_for = "report_count" -> {<<"0">>, <<"2">>, T_word}
      [] waiting_for = "description" -> {T_skip}
      [] OTHER -> {T_word}

Texts == UNION {TextsFor(w, n) : w \in {"phone", "sudo_id_add", "group_link",
                                        "report_count", "description", "None"},
                                n \in 0..REQUIRED_IDS_COUNT}

(* ----------------------------- Database ------------------------------- *)

is_sudo(user_id) == user_id \in db_sudos

\* The first of the positions S of a collection: the record update_one updates.
First(S) == CHOOSE i \in S : \A j \in S : i <= j

\* The accounts a user has: find({"user_id": user_id, "is_active": True})
get_user_accounts(user_id) ==
    SelectSeq(db_accounts, LAMBDA a : a.user_id = user_id /\ a.is_active)
get_active_accounts_count(user_id) == Len(get_user_accounts(user_id))

\* The filter of add_account's update_one.
KeyMatchMutant(doc, user_id, phone) == doc.phone = phone
KeyMatch(doc, user_id, phone) == doc.user_id = user_id /\ doc.phone = phone

\* add_account: an upsert, the first record that matches is set, and without
\* one the record is inserted
add_account(accs, user_id, phone) ==
    LET account_data == [user_id |-> user_id, phone |-> phone, is_active |-> TRUE]
        found == {i \in 1..Len(accs) : KeyMatch(accs[i], user_id, phone)}
    IN IF found = {} THEN Append(accs, account_data)
       ELSE [accs EXCEPT ![First(found)] = account_data]
\* remove_all_accounts: delete_many({"user_id": user_id})
remove_all_accounts(accs, user_id) == SelectSeq(accs, LAMBDA a : a.user_id # user_id)
\* The records of a collection that match {"user_id": user_id}, by position;
\* update_one updates the first of them.
Matching(docs, user_id) == {i \in 1..Len(docs) : docs[i].user_id = user_id}
UserIds == {db_users[i].user_id : i \in 1..Len(db_users)}

\* What an upsert with $setOnInsert makes of a record that matched.
SetOnInsertMutant(old, new) == new
SetOnInsert(old, new) == old

\* add_user: an upsert that sets the fields on insert only; now is datetime.now()
add_user(us, user_id, now) ==
    LET user_data_ == [user_id |-> user_id, joined_date |-> now, report_count |-> 0]
        found == Matching(us, user_id)
    IN IF found = {} THEN Append(us, user_data_)
       ELSE [us EXCEPT ![First(found)] = SetOnInsert(@, user_data_)]
increment_report_count(us, user_id) ==
    LET found == Matching(us, user_id)
    IN IF found = {} THEN us
       ELSE [us EXCEPT ![First(found)].report_count = @ + 1]
add_report(rs, report_id, user_id, count) ==
    Append(rs, [report_id |-> report_id, user_id |-> user_id, requested_count |-> count,
                success_count |-> 0, fail_count |-> 0, status |-> "running",
                completed_at |-> "None"])

\* update_report_status's update_data, built as the code builds it: each
\* assignment to update_data["$inc"] replaces the one before it.
update_data(success, fail, status, now) ==
    LET u1 == IF success # 0 THEN Put(EmptyDict, "inc", [success_count |-> success])
              ELSE EmptyDict
        u2 == IF fail # 0 THEN Put(u1, "inc", [fail_count |-> fail]) ELSE u1
    IN IF status = "None" THEN u2
       ELSE IF status = "completed"
            THEN Put(u2, "set", [status |-> status, completed_at |-> now])
            ELSE Put(u2, "set", [status |-> status])

\* What $inc and $set make of a record.
Updated(doc, update) ==
    [k \in DOMAIN doc |->
        IF "set" \in DOMAIN update /\ k \in DOMAIN update["set"] THEN update["set"][k]
        ELSE IF "inc" \in DOMAIN update /\ k \in DOMAIN update["inc"]
             THEN doc[k] + update["inc"][k]
             ELSE doc[k]]

\* update_report_status: update_one on the first record with the report_id; an
\* empty update is refused and changes nothing.
update_report_status(rs, report_id, success, fail, status, now) ==
    LET found == {i \in 1..Len(rs) : rs[i].report_id = report_id}
        update == update_data(success, fail, status, now)
    IN IF found = {} \/ DOMAIN update = {} THEN rs
       ELSE [rs EXCEPT ![First(found)] = Updated(@, update)]

(* ------------------------------- bot.py ------------------------------- *)

\* is_sudo_user, as start_command, button_callback and handle_send_report compute it
Privileged(user_id) == is_sudo(user_id) \/ user_id = OWNER_ID

\* is_user_member: the status the channel reports; an error counts as no member
is_user_member(user_id) == user_id \in member

Get(d, k, default) == IF k \in DOMAIN d THEN d[k] ELSE default
WaitingFor(user_id) == Get(user_data[user_id], "waiting_for", "None")

SetData(user_id, d) == user_data' = [user_data EXCEPT ![user_id] = d]

\* A set as a sequence, in some order.
RECURSIVE SeqOf(_)
SeqOf(S) == IF S = {} THEN <<>>
            ELSE LET x == CHOOSE y \in S : TRUE IN <<x>> \o SeqOf(S \ {x})

\* uuid4: the n-th report gets an id of its own
ReportIdOf(n) == IF n = 1 THEN "R1" ELSE IF n = 2 THEN "R2" ELSE "R3"

start_command(user_id) ==
    /\ db_users' = add_user(db_users, user_id, "t0")   \* the clock is not followed here
    /\ prompt' = IF ~is_user_member(user_id) /\ ~Privileged(user_id)
                 THEN "force_subscribe" ELSE "other"
    /\ UNCHANGED <<tmvars, obs, wvars, user_data, member, db_sudos, db_accounts,
                   db_reports, rtype_shown>>

\* button_callback's check of the membership: TRUE when the prompt replaces the action
ForceSubscribe(user_id, data) ==
    data # "check_membership" /\ ~Privileged(user_id) /\ ~is_user_member(user_id)

\* handle_send_report's check of the linked accounts: TRUE when the login is asked for
LoginRequiredMutant(user_id) == get_active_accounts_count(user_id) < REQUIRED_IDS_COUNT
LoginRequired(user_id) ==
    ~Privileged(user_id) /\ get_active_accounts_count(user_id) < REQUIRED_IDS_COUNT

handle_send_report(user_id) ==
    IF LoginRequired(user_id)
    THEN prompt' = "login_required" /\ UNCHANGED user_data
    ELSE /\ prompt' = "group_link"
         /\ SetData(user_id, Put(user_data[user_id], "waiting_for", "group_link"))

ButtonData == {"check_membership", "back_to_main", "my_account", "send_report",
               "add_id", "clear_ids", "rtype_1", "owner_panel", "add_sudo",
               "remove_sudo", "broadcast"}

\* The buttons that only show something; guide, view_ids, sudo_list and stats
\* are more of these.
ShowOnly == {"back_to_main", "my_account"}

\* The buttons a user presses: the owner works the owner's panel, the other
\* users work all of the menus.
ButtonsOf(user_id) ==
    IF user_id = OWNER_ID
    THEN {"owner_panel", "add_sudo", "remove_sudo"}
    ELSE ButtonData

\* button_callback's check before it asks for a sudo id or for a broadcast
OwnerOnlyMutant(user_id) == user_id = OWNER_ID \/ is_sudo(user_id)
OwnerOnly(user_id) == user_id = OWNER_ID

button_callback(user_id, data) ==
    /\ data = "rtype_1" => user_id \in rtype_shown      \* the button has been sent
    /\ IF ForceSubscribe(user_id, data)
       THEN prompt' = "force_subscribe" /\ UNCHANGED <<user_data, db_accounts>>
       ELSE CASE data = "check_membership" ->
                   /\ prompt' = "other"
                   /\ UNCHANGED <<user_data, db_accounts>>
              [] data \in ShowOnly ->
                   /\ prompt' = "other"
                   /\ UNCHANGED <<user_data, db_accounts>>
              [] data = "send_report" ->
                   handle_send_report(user_id) /\ UNCHANGED db_accounts
              [] data = "add_id" ->
                   /\ prompt' = "other"
                   /\ SetData(user_id, Put(user_data[user_id], "waiting_for", "phone"))
                   /\ UNCHANGED db_accounts
              [] data = "clear_ids" ->
                   /\ db_accounts' = remove_all_accounts(db_accounts, user_id)
                   /\ prompt' = "other"
                   /\ UNCHANGED user_data
              [] data = "rtype_1" ->
                   /\ prompt' = "other"
                   /\ SetData(user_id,
                         Put(Put(Put(user_data[user_id], "report_type", "SPAM"),
                                 "report_type_name", "Spam"),
                             "waiting_for", "report_count"))
                   /\ UNCHANGED db_accounts
              [] data = "owner_panel" ->
                   /\ prompt' = "other"
                   /\ UNCHANGED <<user_data, db_accounts>>
              [] data \in {"add_sudo", "remove_sudo", "broadcast"} ->
                   IF ~OwnerOnly(user_id)
                   THEN prompt' = "other" /\ UNCHANGED <<user_data, db_accounts>>
                   ELSE /\ prompt' = "other"
                        /\ SetData(user_id, Put(user_data[user_id], "waiting_for",
                              CASE data = "add_sudo" -> "sudo_id_add"
                                [] data = "remove_sudo" -> "sudo_id_remove"
                                [] OTHER -> "broadcast"))
                        /\ UNCHANGED db_accounts
    /\ UNCHANGED <<tmvars, obs, wvars, member, db_sudos, db_users, db_reports,
                   rtype_shown>>

\* What Telegram answers to the bot's logins.
BotSendOutcomes == {"code_sent", "failed"}
BotCodeOutcomes == {"ok", "password_needed", "failed", "none"}

handle_phone_input(user_id, text, out) ==
    /\ WaitingFor(user_id) = "phone"
    /\ IF ~IsPhone(text)
       THEN /\ out = "none"
            /\ prompt' = "other"
            /\ UNCHANGED <<tmvars, user_data>>
       ELSE /\ out \in BotSendOutcomes
            /\ Len(clients) < MaxLogins      \* the bound on the bot's logins
            /\ LET r == send_code(TM, user_id, text, out)
                   d == Put(Put(user_data[user_id], "phone", text), "waiting_for", "code")
               IN /\ SetTM(r.m)
                  /\ IF r.ret[1]
                     THEN /\ SetData(user_id, Put(d, "phone_code_hash", r.ret[2]))
                          /\ prompt' = "other"
                     ELSE /\ SetData(user_id, d)
                          /\ prompt' = "other"
    /\ UNCHANGED <<obs, wvars, member, db_sudos, db_accounts, db_users, db_reports,
                   rtype_shown>>

\* what handle_code_input leaves in user_data after a login that succeeded
AfterCodeLogin(user_id, d, count) ==
    IF Privileged(user_id) \/ count >= REQUIRED_IDS_COUNT
    THEN EmptyDict
    ELSE Put(d, "waiting_for", "phone")

handle_code_input(user_id, text, out) ==
    /\ WaitingFor(user_id) = "code"
    /\ LET phone == Get(user_data[user_id], "phone", <<>>)
       IN /\ out \in VerifyOutcomes(TM, phone, <<>>) \cap BotCodeOutcomes
          /\ LET r == verify_code(TM, user_id, phone, <<>>, out)
                 accs == add_account(db_accounts, user_id, phone)
             IN /\ SetTM(r.m)
                /\ IF r.ret[1]
                   THEN /\ db_accounts' = accs
                        /\ SetData(user_id, AfterCodeLogin(user_id, user_data[user_id],
                              Len(SelectSeq(accs, LAMBDA a : a.user_id = user_id /\ a.is_active))))
                        /\ prompt' = "other"
                   ELSE IF r.ret[2] = "2fa_required"
                   THEN /\ SetData(user_id, Put(user_data[user_id], "waiting_for", "password"))
                        /\ prompt' = "other"
                        /\ UNCHANGED db_accounts
                   ELSE /\ SetData(user_id, EmptyDict)
                        /\ prompt' = "other"
                        /\ UNCHANGED db_accounts
    /\ UNCHANGED <<obs, wvars, member, db_sudos, db_users, db_reports, rtype_shown>>

handle_password_input(user_id, text, out) ==
    /\ WaitingFor(user_id) = "password"
    /\ LET phone == Get(user_data[user_id], "phone", <<>>)
       IN /\ out \in VerifyOutcomes(TM, phone, text) \cap BotCodeOutcomes
          /\ LET r == verify_code(TM, user_id, phone, text, out)
             IN /\ SetTM(r.m)
                /\ SetData(user_id, EmptyDict)
                /\ IF r.ret[1]
                   THEN /\ db_accounts' = add_account(db_accounts, user_id, phone)
                        /\ prompt' = "other"
                   ELSE /\ prompt' = "other"
                        /\ UNCHANGED db_accounts
    /\ UNCHANGED <<obs, wvars, member, db_sudos, db_users, db_reports, rtype_shown>>

handle_add_sudo(user_id, text) ==
    /\ WaitingFor(user_id) = "sudo_id_add"
    /\ LET n == ParseInt(text)
       IN IF n.ok
          THEN db_sudos' = db_sudos \cup {n.value} /\ prompt' = "other"
          ELSE UNCHANGED db_sudos /\ prompt' = "other"
    /\ SetData(user_id, Del(user_data[user_id], "waiting_for"))
    /\ UNCHANGED <<tmvars, obs, wvars, member, db_accounts, db_users, db_reports,
                   rtype_shown>>

handle_remove_sudo(user_id, text) ==
    /\ WaitingFor(user_id) = "sudo_id_remove"
    /\ LET n == ParseInt(text)
       IN IF n.ok
          THEN db_sudos' = db_sudos \ {n.value} /\ prompt' = "other"
          ELSE UNCHANGED db_sudos /\ prompt' = "other"
    /\ SetData(user_id, Del(user_data[user_id], "waiting_for"))
    /\ UNCHANGED <<tmvars, obs, wvars, member, db_accounts, db_users, db_reports,
                   rtype_shown>>

handle_group_link(user_id, text) ==
    /\ WaitingFor(user_id) = "group_link"
    /\ SetData(user_id,
          Put(Put(user_data[user_id], "group_link",
                  IF Lower(text) = Lower(T_skip) THEN <<>> ELSE text),
              "waiting_for", "target_link"))
    /\ prompt' = "other"
    /\ UNCHANGED <<tmvars, obs, wvars, member, db_sudos, db_accounts, db_users,
                   db_reports, rtype_shown>>

handle_target_link(user_id, text) ==
    /\ WaitingFor(user_id) = "target_link"
    /\ SetData(user_id, Put(Put(user_data[user_id], "target_link", text),
                            "waiting_for", "None"))
    /\ rtype_shown' = rtype_shown \cup {user_id}
    /\ prompt' = "other"
    /\ UNCHANGED <<tmvars, obs, wvars, member, db_sudos, db_accounts, db_users,
                   db_reports>>

\* the range handle_report_count accepts: not (count < 1 or count > MAX_REPORTS_PER_BATCH)
InRangeMutant(count) == ~(count < 0 \/ count > MAX_REPORTS_PER_BATCH)
InRange(count) == ~(count < 1 \/ count > MAX_REPORTS_PER_BATCH)

handle_report_count(user_id, text) ==
    /\ WaitingFor(user_id) = "report_count"
    /\ LET n == ParseInt(text)
       IN IF ~n.ok \/ ~InRange(n.value)
          THEN prompt' = "other" /\ UNCHANGED user_data
          ELSE /\ prompt' = "other"
               /\ SetData(user_id, Put(Put(user_data[user_id], "report_count", n.value),
                                       "waiting_for", "description"))
    /\ UNCHANGED <<tmvars, obs, wvars, member, db_sudos, db_accounts, db_users,
                   db_reports, rtype_shown>>

\* handle_description: the report is recorded, start_reporting is called with the
\* user's accounts, which the database holds without API credentials, and
\* user_data is cleared when it has returned.
handle_description(user_id, text) ==
    /\ WaitingFor(user_id) = "description"
    /\ Len(db_reports) < MaxJobs      \* the bound on reports
    /\ LET report_id == ReportIdOf(Len(db_reports) + 1)
           report_count == Get(user_data[user_id], "report_count", 0)
           stored == get_user_accounts(user_id)
           accs == [k \in 1..Len(stored) |-> Account(stored[k].phone, FALSE)]
           r == start_reporting(TM, active_jobs, report_id, user_id, accs, report_count,
                                [k \in 1..Len(accs) |-> "no_file"], TRUE)
       IN /\ db_reports' = add_report(db_reports, report_id, user_id, report_count)
          /\ db_users' = increment_report_count(db_users, user_id)
          /\ SetTM(r.m)
          /\ active_jobs' = r.active_jobs
          /\ job' = Idle      \* the call has returned
          /\ prompt' = "other"
    /\ SetData(user_id, EmptyDict)
    /\ UNCHANGED <<obs, inflight, member, db_sudos, db_accounts, rtype_shown>>

\* handle_message's default answer
default_response(user_id, text) ==
    /\ WaitingFor(user_id) \in {"None", "broadcast"}
    /\ prompt' = "other"
    /\ UNCHANGED <<tmvars, obs, wvars, user_data, member, db_sudos, db_accounts,
                   db_users, db_reports, rtype_shown>>

\* handle_message: a text message that is no command
handle_message(user_id, text, out) ==
    /\ text \in TextsFor(WaitingFor(user_id), get_active_accounts_count(user_id))
    /\ \/ handle_phone_input(user_id, text, out)
       \/ handle_code_input(user_id, text, out)
       \/ handle_password_input(user_id, text, out)
       \/ out = "none" /\ handle_add_sudo(user_id, text)
       \/ out = "none" /\ handle_remove_sudo(user_id, text)
       \/ out = "none" /\ handle_group_link(user_id, text)
       \/ out = "none" /\ handle_target_link(user_id, text)
       \/ out = "none" /\ handle_report_count(user_id, text)
       \/ out = "none" /\ handle_description(user_id, text)
       \/ out = "none" /\ default_response(user_id, text)

\* A user presses a button.
ButtonPress(user_id) == \E data \in ButtonsOf(user_id) : button_callback(user_id, data)

\* A user sends a text message.
TextMessage(user_id) ==
    \E text \in TextsFor(WaitingFor(user_id), get_active_accounts_count(user_id)),
       out \in BotSendOutcomes \cup BotCodeOutcomes :
       handle_message(user_id, text, out)

\* A user joins or leaves the required channel.
JoinChannel(user_id) ==
    /\ user_id \notin member
    /\ member' = member \cup {user_id}
    /\ UNCHANGED <<tmvars, obs, wvars, user_data, db_sudos, db_accounts, db_users,
                   db_reports, rtype_shown, prompt>>

LeaveChannel(user_id) ==
    /\ user_id \in member
    /\ member' = member \ {user_id}
    /\ UNCHANGED <<tmvars, obs, wvars, user_data, db_sudos, db_accounts, db_users,
                   db_reports, rtype_shown, prompt>>

\* main: the updates and the handlers they are routed to.  A text message goes to
\* handle_message, which main registers for it at the entry points and in every
\* state of the conversation; a button goes to button_callback.  The owner works
\* the owner's panel; the owner's membership is looked at by no handler the owner
\* reaches, so that only the other users join and leave the channel.
BotNext ==
    \/ \E user_id \in Users \ {OWNER_ID} : start_command(user_id)
    \/ \E user_id \in Users : ButtonPress(user_id)
    \/ \E user_id \in Users : TextMessage(user_id)
    \/ \E user_id \in Users \ {OWNER_ID} : JoinChannel(user_id)
    \/ \E user_id \in Users \ {OWNER_ID} : LeaveChannel(user_id)

\* The bot after a start: the manager and the dialogues are empty, the database
\* holds what earlier runs have left, here the accounts the user has linked.
BotInit ==
    /\ auth_state = EmptyDict /\ user_clients = EmptyDict /\ clients = <<>>
    /\ obs = NoObs
    /\ active_jobs = EmptyDict /\ job = Idle /\ inflight = {}
    /\ user_data = [u \in Users |-> EmptyDict]
    /\ member = {}
    /\ db_sudos = {}
    /\ \E n \in (REQUIRED_IDS_COUNT - 1)..REQUIRED_IDS_COUNT :
          db_accounts = [k \in 1..n |-> [user_id |-> OWNER_ID + 1, phone |-> PhoneText(k),
                                           is_active |-> TRUE]]
    /\ db_users = <<>>
    /\ db_reports = <<>>
    /\ rtype_shown = {}
    /\ prompt = "other"

SpecBot == BotInit /\ [][BotNext]_vars

(* ------------------------ claims about the bot ------------------------ *)

\* The user a step invokes start_reporting for, 0 when the step invokes it for
\* none: handle_description records the report and then calls start_reporting.
Reporter ==
    IF Len(db_reports') = Len(db_reports) + 1
    THEN db_reports'[Len(db_reports')].user_id
    ELSE 0

\* C8 (required-ID gate), as the claim states it: a step invokes
\* start_reporting for a user who is neither the owner nor a sudo user only
\* when the user has at least REQUIRED_IDS_COUNT linked accounts at that
\* moment.  The code checks the accounts when "send_report" is pressed and at
\* no later step of the dialogue, so that the statement is violated.
C8_RequiredIdGate ==
    [][\A u \in Users :
          (Reporter = u /\ u # OWNER_ID /\ u \notin db_sudos)
             => get_active_accounts_count(u) >= REQUIRED_IDS_COUNT]_vars

C10_ForceSubscribe ==
    [][\A u \in Users :
          (u # OWNER_ID /\ u \notin db_sudos /\ u \notin member)
             => (user_data'[u] = user_data[u] /\ Reporter # u)]_vars

\* C11 (only the owner adds or removes sudo users): no user but the owner is ever
\* asked for a sudo id, handle_add_sudo and handle_remove_sudo handle messages of
\* the owner only, and the sudo collection changes in no other step.
C11_OwnerOnlySudo ==
    /\ [](\A u \in Users \ {OWNER_ID} :
            WaitingFor(u) \notin {"sudo_id_add", "sudo_id_remove"})
    /\ [][/\ \A u \in Users \ {OWNER_ID}, text \in TextsFor("sudo_id_add", 0) :
              ~handle_add_sudo(u, text) /\ ~handle_remove_sudo(u, text)
          /\ db_sudos' # db_sudos =>
                \E text \in Texts :
                   handle_add_sudo(OWNER_ID, text) \/ handle_remove_sudo(OWNER_ID, text)]_vars

\* The owner has made a user sudo, that user has since pressed a button of the
\* sudo dialogue in vain, and the owner has removed nobody.
C11_Witness ==
    /\ db_sudos = Users \ {OWNER_ID}
    /\ prompt = "other"
    /\ \A u \in Users : "waiting_for" \notin DOMAIN user_data[u]

(* ---------------------- handle_broadcast, called ---------------------- *)

\* The users that start the bot where the broadcast is looked at.
Audience == {OWNER_ID, OWNER_ID + 1, OWNER_ID + 2}

\* db.get_all_users: the user records
get_all_users == db_users

\* What message.copy does for one user.
CopyOutcomes == {"sent", "raise"}

\* handle_broadcast's loop body: acc is [copies, sent, failed], copies the
\* chats a copy was attempted to
CopiedMutant(acc, chat_id, out) ==
    IF out = "sent"
    THEN [acc EXCEPT !.copies = Append(@, chat_id), !.sent = @ + 1]
    ELSE [acc EXCEPT !.copies = Append(@, chat_id)]
Copied(acc, chat_id, out) ==
    IF out = "sent"
    THEN [acc EXCEPT !.copies = Append(@, chat_id), !.sent = @ + 1]
    ELSE [acc EXCEPT !.copies = Append(@, chat_id), !.failed = @ + 1]

\* handle_broadcast's loop over the users from the k-th on
RECURSIVE BroadcastLoop(_, _, _, _)
BroadcastLoop(users, outs, k, acc) ==
    IF k > Len(users) THEN acc
    ELSE BroadcastLoop(users, outs, k + 1, Copied(acc, users[k].user_id, outs[users[k].user_id]))

\* handle_broadcast for a message of user_id; obs records what it did
handle_broadcast(user_id, outs) ==
    LET none == [copies |-> <<>>, sent |-> 0, failed |-> 0]
    IN IF user_id # OWNER_ID
       THEN /\ obs' = [op |-> "handle_broadcast", sender |-> user_id, done |-> none]
            /\ UNCHANGED <<user_data, prompt>>
       ELSE /\ obs' = [op |-> "handle_broadcast", sender |-> user_id,
                       done |-> BroadcastLoop(get_all_users, outs, 1, none)]
            /\ prompt' = "other"
            /\ user_data' = [u \in DOMAIN user_data |->
                               IF u = user_id THEN EmptyDict ELSE user_data[u]]

HandleBroadcastCall(user_id, outs) ==
    /\ handle_broadcast(user_id, outs)
    /\ UNCHANGED <<tmvars, wvars, member, db_sudos, db_accounts, db_users, db_reports,
                   rtype_shown>>

BroadcastNext ==
    \/ \E user_id \in Audience : start_command(user_id)
    \/ \E user_id \in Audience \ {OWNER_ID} : JoinChannel(user_id)
    \/ \E user_id \in Audience \ {OWNER_ID} : LeaveChannel(user_id)
    \/ \E user_id \in Users, outs \in [UserIds -> CopyOutcomes] :
          HandleBroadcastCall(user_id, outs)

SpecBroadcast == AuthInit /\ [][BroadcastNext]_vars

\* C12 (only the owner broadcasts): a handle_broadcast for a message of the
\* owner attempts one copy to every user record and to nobody else, and the
\* sent and failed it reports add up to the number of user records; for any
\* other sender it attempts no copy.
C12_OwnerOnlyBroadcast ==
    [][\A user_id \in Users, outs \in [UserIds -> CopyOutcomes] :
          HandleBroadcastCall(user_id, outs) =>
             LET done == obs'.done
             IN IF user_id = OWNER_ID
                THEN /\ done.sent + done.failed = Len(db_users)
                     /\ Len(done.copies) = Len(db_users)
                     /\ \A u \in UserIds :
                           Cardinality({k \in 1..Len(done.copies) : done.copies[k] = u}) = 1
                     /\ done.sent = Cardinality({u \in UserIds : outs[u] = "sent"})
                ELSE done.copies = <<>> /\ done.sent = 0 /\ done.failed = 0]_vars

\* The owner has broadcast to three users: one copy was sent, two failed.
C12_Witness ==
    /\ obs.op = "handle_broadcast" /\ obs.sender = OWNER_ID
    /\ UserIds = Audience
    /\ obs.done.sent = 1 /\ obs.done.failed = 2

(* ------------------------- the owner's panel -------------------------- *)

\* The buttons of the owner's panel and of the start menu, which every user may
\* press here.
PanelButtons == {"check_membership", "back_to_main", "owner_panel", "add_sudo",
                 "remove_sudo", "broadcast"}

PanelPress(user_id) == \E data \in PanelButtons : button_callback(user_id, data)

\* main, with the updates of the panel: buttons go to button_callback and text
\* messages to handle_message; the conversation never enters WAITING_BROADCAST,
\* whose button is no entry point, so that no update goes to handle_broadcast.
PanelNext ==
    \/ \E user_id \in Audience : start_command(user_id)
    \/ \E user_id \in Users : PanelPress(user_id)
    \/ \E user_id \in Users : TextMessage(user_id)
    \/ \E user_id \in Users \ {OWNER_ID} : JoinChannel(user_id)
    \/ \E user_id \in Users \ {OWNER_ID} : LeaveChannel(user_id)

SpecPanel == AuthInit /\ [][PanelNext]_vars

\* C13 (broadcast is reachable), as the claim states it: when the owner has
\* pressed "broadcast" (waiting_for = "broadcast"), the owner's next message is
\* handled by handle_broadcast, which copies it to every user record.
\* handle_message has no branch for "broadcast" and answers with the default
\* response, so that the statement is violated.
C13_BroadcastReachable ==
    [][(WaitingFor(OWNER_ID) = "broadcast" /\ TextMessage(OWNER_ID))
          => /\ obs'.op = "handle_broadcast"
             /\ obs'.sender = OWNER_ID
             /\ Len(obs'.done.copies) = Len(db_users)]_vars

(* ------------------------- the report count --------------------------- *)

\* The counts a user sends at the edges of the accepted range, by their digits.
RECURSIVE DigitsOf(_)
DigitsOf(n) == IF n < 10 THEN <<Digit(n)>> ELSE Append(DigitsOf(n \div 10), Digit(n % 10))

CountTexts == {DigitsOf(0), DigitsOf(1), DigitsOf(MAX_REPORTS_PER_BATCH),
               DigitsOf(MAX_REPORTS_PER_BATCH + 1), <<"-">> \o DigitsOf(1)}

CountButtons == {"send_report", "rtype_1", "back_to_main"}

CountPress(user_id) == \E data \in CountButtons : button_callback(user_id, data)

\* handle_message while the dialogue waits for the count
CountMessage(user_id) ==
    \E text \in CountTexts :
        /\ WaitingFor(user_id) = "report_count"
        /\ handle_report_count(user_id, text)

\* main, with the updates of a report dialogue
CountNext ==
    \/ \E user_id \in Users : CountPress(user_id)
    \/ \E user_id \in Users : CountMessage(user_id)
    \/ \E user_id \in Users : TextMessage(user_id)
    \/ \E user_id \in Users \ {OWNER_ID} : JoinChannel(user_id)
    \/ \E user_id \in Users \ {OWNER_ID} : LeaveChannel(user_id)

SpecCount == BotInit /\ [][CountNext]_vars

\* C14 (report-count bound): handle_report_count stores the count and sets
\* waiting_for to "description" only when the text is a number with
\* 1 <= count <= MAX_REPORTS_PER_BATCH; for every other text user_data is
\* unchanged and the dialogue keeps waiting for the count.  Hence the count the
\* dialogue holds at the description step, and the count of every report that
\* handle_description records and starts, is within 1..MAX_REPORTS_PER_BATCH.
C14_ReportCountBound ==
    /\ [](/\ \A i \in 1..Len(db_reports) :
               db_reports[i].requested_count \in 1..MAX_REPORTS_PER_BATCH
          /\ \A u \in Users :
               WaitingFor(u) = "description" =>
                   Get(user_data[u], "report_count", 0) \in 1..MAX_REPORTS_PER_BATCH
          /\ \A id \in DOMAIN active_jobs :
               active_jobs[id].total \in 1..MAX_REPORTS_PER_BATCH)
    /\ [][\A u \in Users, text \in CountTexts \cup TextsFor("report_count", 0) :
            handle_report_count(u, text) =>
               LET n == ParseInt(text)
               IN IF n.ok /\ 1 <= n.value /\ n.value <= MAX_REPORTS_PER_BATCH
                  THEN /\ user_data'[u].report_count = n.value
                       /\ WaitingFor(u)' = "description"
                  ELSE /\ user_data' = user_data
                       /\ WaitingFor(u)' = "report_count"]_vars

\* A report of MAX_REPORTS_PER_BATCH requests has been recorded, and a user is
\* still asked for the count.
C14_Witness ==
    /\ \E i \in 1..Len(db_reports) : db_reports[i].requested_count = MAX_REPORTS_PER_BATCH
    /\ \E u \in Users : WaitingFor(u) = "report_count"

(* -------------------------- active reports ---------------------------- *)

\* get_stats()["active_reports"]: the report records whose status is "running"
active_reports == Cardinality({i \in 1..Len(db_reports) : db_reports[i].status = "running"})

\* C15 (active reports), as the claim states it: the number of report records
\* with status "running" equals the number of jobs running in ReportWorker, so
\* that no record is "running" once start_reporting has returned for it.
\* handle_description never updates the record, so that the statement is
\* violated when start_reporting has returned.
C15_ActiveReports == active_reports = Cardinality(DOMAIN active_jobs)

(* ----------------------- the reports collection ----------------------- *)

\* The bound on the report records and on their counters, and the values of
\* datetime.now().
MaxRecords == 2
MaxCount == 2
Times == {"t1", "t2"}
ReportIdsDb == {ReportIdOf(n) : n \in 1..(MaxRecords + 1)}
Statuses == {"None", "completed", "failed"}

AddReportCall(user_id, count) ==
    /\ Len(db_reports) < MaxRecords
    /\ db_reports' = add_report(db_reports, ReportIdOf(Len(db_reports) + 1), user_id, count)
    /\ UNCHANGED <<tmvars, obs, wvars, user_data, member, db_sudos, db_accounts, db_users,
                   rtype_shown, prompt>>

UpdateReportStatusCall(report_id, success, fail, status, now) ==
    /\ \A i \in 1..Len(db_reports) :
          db_reports[i].success_count + success <= MaxCount
          /\ db_reports[i].fail_count + fail <= MaxCount
    /\ db_reports' = update_report_status(db_reports, report_id, success, fail, status, now)
    /\ UNCHANGED <<tmvars, obs, wvars, user_data, member, db_sudos, db_accounts, db_users,
                   rtype_shown, prompt>>

ReportsNext ==
    \/ \E user_id \in {OWNER_ID}, count \in {MaxCount} : AddReportCall(user_id, count)
    \/ \E report_id \in ReportIdsDb, success \in 0..1, fail \in 0..1,
          status \in Statuses, now \in Times :
          UpdateReportStatusCall(report_id, success, fail, status, now)

SpecReports == AuthInit /\ [][ReportsNext]_vars

\* C16 (update_report_status), as the claim states it: a call with success = s,
\* fail = f and status = st on an existing record raises its success_count by s
\* and its fail_count by f, for all s, f >= 0, both non-zero included, and sets
\* the status if one is given, and completed_at if it is "completed".  The
\* second assignment to update_data["$inc"] replaces the first, so that the
\* statement is violated when both are non-zero.
C16_UpdateReportStatus ==
    [][\A i \in 1..Len(db_reports), success \in 0..1, fail \in 0..1,
          status \in Statuses, now \in Times :
          (/\ \A j \in 1..(i - 1) : db_reports[j].report_id # db_reports[i].report_id
           /\ UpdateReportStatusCall(db_reports[i].report_id, success, fail, status, now))
          => /\ db_reports'[i].success_count = db_reports[i].success_count + success
             /\ db_reports'[i].fail_count = db_reports[i].fail_count + fail
             /\ status # "None" => db_reports'[i].status = status
             /\ status = "completed" => db_reports'[i].completed_at = now]_vars

(* ----------------- stop_reporting while a job is set up --------------- *)

\* start_reporting up to its first await: the job is put into active_jobs, and
\* without accounts it is removed and the call returns at once; obs keeps the
\* arguments for the rest of the call.
StartReportingBegin(report_id, user_id, accounts, report_count, outs, target_found) ==
    /\ job.pc = "idle"
    /\ ConnectAll(TM, user_id, accounts, outs, 1, <<>>).valid
    /\ LET jobs1 == Put(active_jobs, report_id, NewJob(report_count))
           r == connect_and_find(TM, jobs1, report_id, user_id, accounts, report_count,
                                 outs, target_found)
       IN /\ Len(r.m.clients) <= MaxClients      \* the bound on created clients
          /\ (r.job.pc = "returned" /\ r.job.ret[2] # "Could not find target") => target_found
          /\ IF accounts = <<>>
             THEN active_jobs' = r.active_jobs /\ job' = r.job /\ obs' = NoObs
             ELSE /\ active_jobs' = jobs1
                  /\ job' = [Idle EXCEPT !.pc = "connecting", !.report_id = report_id,
                                         !.report_count = report_count]
                  /\ obs' = [op |-> "start_reporting", user_id |-> user_id,
                             accounts |-> accounts, outs |-> outs,
                             target_found |-> target_found]
    /\ UNCHANGED <<tmvars, inflight, botvars>>

\* The awaits before the loop: the clients are connected, the chat is joined and
\* the target is looked up; whether the job is still running is not looked at.
StartReportingConnect ==
    /\ job.pc = "connecting"
    /\ LET r == connect_and_find(TM, active_jobs, job.report_id, obs.user_id, obs.accounts,
                                 job.report_count, obs.outs, obs.target_found)
       IN /\ SetTM(r.m)
          /\ active_jobs' = r.active_jobs
          /\ job' = [r.job EXCEPT !.stopped = job.stopped]
    /\ obs' = NoObs
    /\ UNCHANGED <<inflight, botvars>>

StopNext ==
    \/ \E report_id \in {"R1"}, user_id \in {OWNER_ID}, accounts \in AccountLists,
          report_count \in 0..MaxReports, target_found \in BOOLEAN :
          \E outs \in [1..Len(accounts) -> ClientOutcomes] :
             StartReportingBegin(report_id, user_id, accounts, report_count, outs,
                                 target_found)
    \/ StartReportingConnect
    \/ LoopCheck
    \/ \E i \in 0..MaxReports, out \in ReportOutcomes : ReportDone(i, out)
    \/ Sleep
    \/ Finish
    \/ Returned
    \/ \E report_id \in ReportIds : StopReporting(report_id)

SpecStop == AuthInit /\ [][StopNext]_vars

\* C17 (stop), as the claim states it: stop_reporting returns True exactly when
\* the job is in active_jobs, and for an unknown report_id it returns False and
\* leaves active_jobs unchanged; once it has returned True for a job, no further
\* report attempt of the job begins, and start_reporting returns True with the
\* counts accumulated so far and removes the job.  A job that is stopped before
\* its loop, while its clients are connected and its target is looked up, still
\* returns False with a message when no client connects or no target is found,
\* so that the statement is violated.
C17_Stop ==
    /\ [][\A report_id \in ReportIds :
            StopReporting(report_id) =>
               LET r == stop_reporting(active_jobs, report_id)
               IN /\ r.ret = (report_id \in DOMAIN active_jobs)
                  /\ ~r.ret => active_jobs' = active_jobs
                  /\ r.ret => ~active_jobs'[report_id].running]_vars
    /\ [][job.stopped =>
            /\ inflight' \subseteq inflight
            /\ DOMAIN job'.attempts = DOMAIN job.attempts => job'.attempts = job.attempts]_vars
    /\ [][(job.stopped /\ job.pc # "returned" /\ job'.pc = "returned")
            => /\ job'.ret[1] = TRUE
               /\ job'.result = [success |-> active_jobs[job.report_id].success,
                                 failed |-> active_jobs[job.report_id].failed]
               /\ job.report_id \notin DOMAIN active_jobs']_vars

\* C17 (stop), for a job in its loop: stop_reporting returns True exactly when
\* the job is in active_jobs, and otherwise returns False and leaves active_jobs
\* unchanged; once it has returned True for a job, no further report attempt of
\* the job begins and start_reporting removes the job when it returns; it
\* returns True with the counts accumulated so far if the job had reached its
\* loop when it was stopped or reaches it afterwards, and False with a message
\* only if the job was stopped before the loop and no client connects or no
\* target is found.
C17_StopInLoop ==
    /\ [][\A report_id \in ReportIds :
            StopReporting(report_id) =>
               LET r == stop_reporting(active_jobs, report_id)
               IN /\ r.ret = (report_id \in DOMAIN active_jobs)
                  /\ ~r.ret => active_jobs' = active_jobs
                  /\ r.ret => ~active_jobs'[report_id].running]_vars
    /\ [][job.stopped =>
            /\ inflight' \subseteq inflight
            /\ DOMAIN job'.attempts = DOMAIN job.attempts => job'.attempts = job.attempts]_vars
    /\ [][(job.stopped /\ job.pc # "returned" /\ job'.pc = "returned")
            => /\ job.report_id \notin DOMAIN active_jobs'
               /\ IF job.pc = "connecting"
                  THEN job'.ret[1] = FALSE
                  ELSE /\ job'.ret[1] = TRUE
                       /\ job'.result = [success |-> active_jobs[job.report_id].success,
                                         failed |-> active_jobs[job.report_id].failed]]_vars

\* A job that was stopped in its loop has returned True with the one outcome it
\* had counted, out of the three reports it was started for.
C17_Witness ==
    /\ job.pc = "returned" /\ job.stopped
    /\ job.ret[1] = TRUE
    /\ job.report_count = MaxReports
    /\ job.result.success + job.result.failed = 1
    /\ job.report_id \notin DOMAIN active_jobs

(* ---------------------- the login, continued --------------------------- *)

\* C18 (login continues until the required count), as the claim states it:
\* when a login of a user who is neither owner nor sudo succeeds and leaves the
\* user with fewer than REQUIRED_IDS_COUNT accounts, waiting_for is "phone"
\* afterwards, whether the login was completed by the code or by the two-factor
\* password.  handle_password_input clears user_data after every login, so that
\* the statement is violated for a login completed by the password.
C18_LoginContinues ==
    [][\A u \in Users, text \in TextsFor("password", 0) :
          LET phone == Get(user_data[u], "phone", <<>>)
              password == IF WaitingFor(u) = "password" THEN text ELSE <<>>
          IN (/\ ~Privileged(u)
              /\ handle_code_input(u, text, "ok") \/ handle_password_input(u, text, "ok")
              /\ verify_code(TM, u, phone, password, "ok").ret[1]
              /\ get_active_accounts_count(u)' < REQUIRED_IDS_COUNT)
             => WaitingFor(u)' = "phone"]_vars

(* ----------------------- the accounts collection ---------------------- *)

\* The phones a user has logged in since the user's last clear_ids, as obs
\* keeps them from call to call.
Since(user_id) == IF obs.op \in {"add_account", "remove_all_accounts"}
                  THEN obs.since[user_id] ELSE {}

\* A login has succeeded: handle_code_input and handle_password_input store the
\* account of the user for the phone.
AddAccountCall(user_id, phone) ==
    /\ db_accounts' = add_account(db_accounts, user_id, phone)
    /\ obs' = [op |-> "add_account", user_id |-> user_id, phone |-> phone,
               since |-> [u \in Users |-> IF u = user_id THEN Since(u) \cup {phone}
                                          ELSE Since(u)]]
    /\ UNCHANGED <<tmvars, wvars, user_data, member, db_sudos, db_users, db_reports,
                   rtype_shown, prompt>>

\* clear_ids: button_callback removes the accounts of the user.
RemoveAllAccountsCall(user_id) ==
    /\ db_accounts' = remove_all_accounts(db_accounts, user_id)
    /\ obs' = [op |-> "remove_all_accounts", user_id |-> user_id, phone |-> <<>>,
               since |-> [u \in Users |-> IF u = user_id THEN {} ELSE Since(u)]]
    /\ UNCHANGED <<tmvars, wvars, user_data, member, db_sudos, db_users, db_reports,
                   rtype_shown, prompt>>

AccountsNext ==
    \/ \E user_id \in Users, phone \in BotPhones : AddAccountCall(user_id, phone)
    \/ \E user_id \in Users : RemoveAllAccountsCall(user_id)

SpecAccounts == AuthInit /\ [][AccountsNext]_vars

\* C19 (linked-ID count): a user's active account count is the number of
\* distinct phones the user has logged in since the user's last clear_ids;
\* add_account raises it by one for a phone the user has not linked and leaves
\* it for a phone the user has linked, clear_ids sets it to 0, and neither
\* changes the accounts of another user.
C19_LinkedIdCount ==
    /\ [](\A u \in Users :
            /\ get_active_accounts_count(u) = Cardinality(Since(u))
            /\ {get_user_accounts(u)[k].phone : k \in 1..get_active_accounts_count(u)}
                  = Since(u))
    /\ [][\A u \in Users, phone \in BotPhones :
            AddAccountCall(u, phone) =>
               /\ get_active_accounts_count(u)' =
                     get_active_accounts_count(u) + (IF phone \in Since(u) THEN 0 ELSE 1)
               /\ \A v \in Users \ {u} : get_user_accounts(v)' = get_user_accounts(v)]_vars
    /\ [][\A u \in Users :
            RemoveAllAccountsCall(u) =>
               /\ get_active_accounts_count(u)' = 0
               /\ \A v \in Users \ {u} : get_user_accounts(v)' = get_user_accounts(v)]_vars

\* A user linked one phone, the owner then linked all three, and the last call
\* was the user's login of the same phone again: it added no record.
C19_Witness ==
    /\ obs.op = "add_account" /\ obs.user_id = OWNER_ID + 1
    /\ get_active_accounts_count(OWNER_ID + 1) = 1
    /\ get_active_accounts_count(OWNER_ID) = REQUIRED_IDS_COUNT
    /\ Len(db_accounts) = REQUIRED_IDS_COUNT + 1
    /\ db_accounts[1].user_id = OWNER_ID + 1

(* ------------------------ the users collection ------------------------ *)

\* start_command registers the sender; now is datetime.now().
AddUserCall(user_id, now) ==
    /\ db_users' = add_user(db_users, user_id, now)
    /\ obs' = [op |-> "add_user", user_id |-> user_id, now |-> now]
    /\ UNCHANGED <<tmvars, wvars, user_data, member, db_sudos, db_accounts, db_reports,
                   rtype_shown, prompt>>

\* handle_description counts the report of the sender.
IncrementReportCountCall(user_id) ==
    /\ \A i \in Matching(db_users, user_id) : db_users[i].report_count < MaxCount
    /\ db_users' = increment_report_count(db_users, user_id)
    /\ obs' = [op |-> "increment_report_count", user_id |-> user_id, now |-> "None"]
    /\ UNCHANGED <<tmvars, wvars, user_data, member, db_sudos, db_accounts, db_reports,
                   rtype_shown, prompt>>

UsersNext ==
    \/ \E user_id \in Users, now \in Times : AddUserCall(user_id, now)
    \/ \E user_id \in Users : IncrementReportCountCall(user_id)

SpecUsers == AuthInit /\ [][UsersNext]_vars

\* C20 (add_user is idempotent): add_user for a user_id that has a record
\* leaves the users collection as it is, with the record's report_count and
\* joined_date; for a user_id without a record it inserts one with the current
\* time and report_count 0; and no user_id ever has more than one record.
C20_AddUserIdempotent ==
    /\ [](\A u \in Users : Cardinality(Matching(db_users, u)) <= 1)
    /\ [][\A u \in Users, now \in Times :
            AddUserCall(u, now) =>
               IF Matching(db_users, u) # {}
               THEN db_users' = db_users
               ELSE /\ Len(db_users') = Len(db_users) + 1
                    /\ SubSeq(db_users', 1, Len(db_users)) = db_users
                    /\ db_users'[Len(db_users')] =
                          [user_id |-> u, joined_date |-> now, report_count |-> 0]]_vars

\* add_user was called again, at another time, for a user that has reports
\* counted: the record has kept its joined_date and its report_count.
C20_Witness ==
    /\ obs.op = "add_user"
    /\ \E i \in Matching(db_users, obs.user_id) :
          /\ db_users[i].report_count = MaxCount
          /\ db_users[i].joined_date # obs.now
    /\ Len(db_users) = Cardinality(Users)

====
